---- MODULE Spec2Model ----
(***************************************************************************)
(* A model of the InterviewHelper MCQ pipelines:                           *)
(*   - the merging flat-file store  (mdx_reader_full_length.py)            *)
(*   - the mirrored flat-file store and its driver loop (mdx_reader.py)    *)
(*   - the front-matter parser (both readers, identical code)              *)
(*   - the remote sync (mongo_db_connect.py)                               *)
(*   - the document loops of the two generators' main()                    *)
(* Each part has its own specification over the module's variables; the    *)
(* variables a specification does not use keep their initial value.        *)
(***************************************************************************)
EXTENDS Integers, Sequences, FiniteSets, TLC

VARIABLES
    files,      \* the questions directory: output file name -> content
    pub,        \* the public mirror directory: output file name -> content
    last,       \* the last call of a save_to_file: what it was given and how it ended
    arg,        \* MergeSpec: the question list handed to save_to_file
    phase,      \* MergeSpec: how many calls of save_to_file(arg, f) have returned
    first,      \* MergeSpec: the content of f when the first call returned
    raw,        \* FMSpec: the text handed to parse_frontmatter
    fm,         \* FMSpec: what parse_frontmatter returned
    pdin,       \* PDSpec: the (filename, data) handed to process_data
    pdout,      \* PDSpec: what process_data returned
    folder,     \* SyncSpec: the folder main() reads: file name -> content
    store,      \* SyncSpec: the Mcqs collection, a sequence of documents
    sync,       \* SyncSpec: the control state of main() and the pass's history
    sched,      \* SchedSpec: the loop of mdx_reader.main and its history
    batch       \* BatchSpec: the loop of mdx_reader_full_length.main and its history

vars == <<files, pub, last, arg, phase, first, raw, fm, pdin, pdout, folder, store, sync,
          sched, batch>>

storeVars == <<files, pub, last>>
mergeVars == <<arg, phase, first>>
fmVars    == <<raw, fm>>
pdVars    == <<pdin, pdout>>
syncVars  == <<folder, store, sync>>
loopVars  == <<sched, batch>>

None == "None"

(***************************************************************************)
(* Bounds of the model.                                                    *)
(***************************************************************************)
MaxLen == 2      \* longest question list the generation service returns
MaxStr == 7      \* longest text handed to parse_frontmatter

(***************************************************************************)
(* Sequences of bounded length, and small helpers.                         *)
(***************************************************************************)
SeqsUpTo(S, n) == UNION {[1..k -> S] : k \in 0..n}

Range(s) == {s[i] : i \in DOMAIN s}

(***************************************************************************)
(* Question records.  The pipeline reads only the "question" field; the    *)
(* rest of the payload (options, correct_answer) is carried along and is   *)
(* stood for by correct_answer.  The last record has no "question" key:    *)
(* the generation service's JSON is not validated.                         *)
(***************************************************************************)
Questions ==
    { [question |-> "X", correct_answer |-> "A"],
      [question |-> "X", correct_answer |-> "B"],
      [question |-> "Y", correct_answer |-> "A"] }

NoQuestionKey == [correct_answer |-> "A"]

AllQuestions == Questions \cup {NoQuestionKey}

\* q.get('question', '')
QText(q) == IF "question" \in DOMAIN q THEN q.question ELSE ""

(***************************************************************************)
(* File contents: no file, a file that is not JSON (json.load raises       *)
(* JSONDecodeError), or a JSON array of question objects.                  *)
(***************************************************************************)
Absent  == [kind |-> "absent",  qs |-> <<>>]
Corrupt == [kind |-> "corrupt", qs |-> <<>>]
Json(qs) == [kind |-> "json", qs |-> qs]

OutFiles == {"mcqs.json"}

\* How a write of a file ends: open(filename, 'w') raises (the file is as it
\* was), json.dump raises after the file was truncated (the file is left
\* cut short, no longer JSON), or the write completes.
WriteOutcomes == {"ok", "open_failed", "dump_failed"}

Written(old, qs, res) ==
    CASE res = "ok"          -> Json(qs)
      [] res = "open_failed" -> old
      [] res = "dump_failed" -> Corrupt

(***************************************************************************)
(* MCQGenerator.save_to_file of mdx_reader_full_length.py.                 *)
(***************************************************************************)
\* existing_questions: [] unless the file exists and parses
ExistingQuestions(c) == IF c.kind = "json" THEN c.qs ELSE <<>>

\* the loop over all_questions with the set `seen`
RECURSIVE DedupLoop(_, _, _, _)
DedupLoop(all, i, seen, unique) ==
    IF i > Len(all) THEN unique
    ELSE LET q_text == QText(all[i]) IN
         IF q_text \notin seen
         THEN DedupLoop(all, i + 1, seen \cup {q_text}, Append(unique, all[i]))
         ELSE DedupLoop(all, i + 1, seen, unique)

\* a plausible slip: the new questions are put before the existing ones
UniqueQuestionsNewFirst(existing, questions) ==
    DedupLoop(questions \o existing, 1, {}, <<>>)

\* a plausible slip: the combined list is written without the dedup loop
UniqueQuestionsNoDedup(existing, questions) == existing \o questions

\* a plausible slip: the existing file is not read back
UniqueQuestionsNoRead(existing, questions) == DedupLoop(questions, 1, {}, <<>>)

\* a plausible slip: only adjacent repeats are dropped
UniqueQuestionsAdjacent(existing, questions) ==
    LET all == existing \o questions
        kept == SelectSeq([i \in DOMAIN all |-> [i |-> i, q |-> all[i]]],
                          LAMBDA e : e.i = 1 \/ QText(all[e.i - 1]) # QText(e.q))
    IN [n \in DOMAIN kept |-> kept[n].q]

\* all_questions = existing_questions + questions, then the dedup loop
UniqueQuestions(existing, questions) ==
    DedupLoop(existing \o questions, 1, {}, <<>>)

\* the content of `filename` after save_to_file(questions, filename)
MergedFile(old, questions, res) ==
    Written(old, UniqueQuestions(ExistingQuestions(old), questions), res)

MergingSave(questions, f, res) ==
    /\ files' = [files EXCEPT ![f] = MergedFile(files[f], questions, res)]
    /\ pub' = pub

(***************************************************************************)
(* MCQGenerator.save_to_file of mdx_reader.py: the questions are written   *)
(* as given, first to the questions directory and then to the public       *)
(* mirror, inside one try block: the first write raising skips the second. *)
(***************************************************************************)
MirrorOutcomes ==
    {r \in [src : WriteOutcomes, public : WriteOutcomes \cup {"skipped"}] :
        (r.public = "skipped") <=> (r.src # "ok")}

MirroredSave(questions, f, r) ==
    /\ files' = [files EXCEPT ![f] = Written(files[f], questions, r.src)]
    /\ pub' = IF r.src = "ok"
              THEN [pub EXCEPT ![f] = Written(pub[f], questions, r.public)]
              ELSE pub

(***************************************************************************)
(* generate_mcqs: the parsed response of the generation service, or [] on  *)
(* any exception (network error, response that is not JSON).               *)
(***************************************************************************)
Responses == SeqsUpTo(Questions, MaxLen)

RepeatsText(qs) ==
    \E i, j \in DOMAIN qs : i # j /\ QText(qs[i]) = QText(qs[j])

TextsOf(c) == {QText(q) : q \in Range(c.qs)}

\* what the history keeps of one call of a save_to_file
Call(op, f, res, public, questions, old) ==
    [op |-> op, file |-> f, res |-> res, public |-> public,
     repeats |-> RepeatsText(questions),
     hadOther |-> (TextsOf(old) \ {QText(q) : q \in Range(questions)}) # {}]

NoCall == [op |-> "none", file |-> None, res |-> None, public |-> None,
           repeats |-> FALSE, hadOther |-> FALSE]

(***************************************************************************)
(* Spec: the two flat-file pipelines writing the questions directory.      *)
(***************************************************************************)
IdleMerge == arg = <<>> /\ phase = "idle" /\ first = None
NotParsed == [done |-> FALSE, metadata |-> <<>>, content |-> <<>>]

IdleFM    == raw = <<>> /\ fm = NotParsed
NotProcessed == [done |-> FALSE, data |-> <<>>]

IdlePD    == pdin = None /\ pdout = NotProcessed
IdleSync  == folder = <<>> /\ store = <<>> /\ sync = <<>>
IdleStore == files = <<>> /\ pub = <<>> /\ last = NoCall
IdleSched == sched = <<>>
IdleBatch == batch = <<>>

Init ==
    /\ files = [f \in OutFiles |-> Absent]
    /\ pub = [f \in OutFiles |-> Absent]
    /\ last = NoCall
    /\ IdleMerge /\ IdleFM /\ IdlePD /\ IdleSync /\ IdleSched /\ IdleBatch

\* a call of the merging save_to_file(questions, f)
SaveToFile ==
    \E f \in OutFiles, questions \in Responses, res \in WriteOutcomes :
        /\ MergingSave(questions, f, res)
        /\ last' = Call("merge", f, res, "none", questions, files[f])
        /\ UNCHANGED <<mergeVars, fmVars, pdVars, syncVars, loopVars>>

\* one turn of the loop of mdx_reader.main for a document with content:
\* generate_mcqs, then save_to_file of whatever it returned, [] included
ProcessDocument ==
    \E f \in OutFiles, questions \in Responses, r \in MirrorOutcomes :
        /\ MirroredSave(questions, f, r)
        /\ last' = Call("mirror", f, r.src, r.public, questions, files[f])
        /\ UNCHANGED <<mergeVars, fmVars, pdVars, syncVars, loopVars>>

Next == SaveToFile \/ ProcessDocument

Spec == Init /\ [][Next]_vars

(***************************************************************************)
(* MergeSpec: save_to_file(arg, f) of the merging store called twice in a  *)
(* row on a file of any content.                                           *)
(***************************************************************************)
Contents == {Absent, Corrupt} \cup {Json(qs) : qs \in SeqsUpTo(AllQuestions, MaxLen)}

MergeInit ==
    /\ files \in [OutFiles -> Contents]
    /\ pub = [f \in OutFiles |-> Absent]
    /\ last = NoCall
    /\ arg \in SeqsUpTo(AllQuestions, MaxLen)
    /\ phase = "start"
    /\ first = None
    /\ IdleFM /\ IdlePD /\ IdleSync /\ IdleSched /\ IdleBatch

TheFile == CHOOSE f \in OutFiles : TRUE

CallSave ==
    \E res \in WriteOutcomes :
        /\ phase \in {"start", "once"}
        /\ MergingSave(arg, TheFile, res)
        /\ last' = [op |-> "merge", file |-> TheFile, res |-> res, before |-> files[TheFile]]
        /\ phase' = IF phase = "start" THEN "once" ELSE "twice"
        /\ first' = IF phase = "start"
                    THEN [res |-> res, after |-> files'[TheFile]]
                    ELSE first
        /\ UNCHANGED <<arg, fmVars, pdVars, syncVars, loopVars>>

MergeNext == CallSave

MergeSpec == MergeInit /\ [][MergeNext]_vars

(***************************************************************************)
(* Claims about the flat-file store.                                       *)
(***************************************************************************)
PairwiseDistinct(qs) == ~RepeatsText(qs)

\* C1: save(Q, f) called a second time right after save(Q, f), Q's question
\* texts pairwise distinct, f absent, unparsable or holding any question
\* list: when the first call wrote the file and the second call did not fail
\* in the middle of its write, f holds after the second call exactly what it
\* held after the first (same elements, same order, no growth).
C1_DedupIdempotent ==
    (/\ phase = "twice"
     /\ PairwiseDistinct(arg)
     /\ first.res = "ok"
     /\ last.res # "dump_failed")
    => files[TheFile] = first.after

\* the second call has returned, the file held questions before the first
\* call, and the two calls' list brought a new text and a text already there
C1_Witness ==
    /\ phase = "twice"
    /\ PairwiseDistinct(arg)
    /\ first.res = "ok"
    /\ last.res = "ok"
    /\ files[TheFile] = first.after
    /\ Len(arg) = 2
    /\ Len(first.after.qs) = 3
    /\ \E q \in Range(arg) : q \notin Range(first.after.qs)

\* the indices of `all` that hold the first occurrence of their question text
FirstIndices(all) ==
    {i \in DOMAIN all : \A j \in 1..(i - 1) : QText(all[j]) # QText(all[i])}

\* r is `all` cut down to the first occurrence of each question text
IsFirstOccurrences(r, all) ==
    /\ Len(r) = Cardinality(FirstIndices(all))
    /\ \A i \in FirstIndices(all) :
          r[Cardinality({j \in FirstIndices(all) : j <= i})] = all[i]

\* C2: a save whose write completes leaves in the file exactly the existing
\* sequence E followed by the new sequence N, cut down to the first
\* occurrence of each question text: the order of E then N is kept, and of an
\* existing and a new entry with the same text the existing one stays.
C2_EarliestWins ==
    (phase # "start" /\ last.res = "ok")
    => /\ files[TheFile].kind = "json"
       /\ IsFirstOccurrences(files[TheFile].qs,
                             ExistingQuestions(last.before) \o arg)

\* an existing entry and a new one share the text and differ in the answer;
\* the existing one is in the file, the new one is not
C2_Witness ==
    /\ phase = "once"
    /\ last.res = "ok"
    /\ \E e \in Range(ExistingQuestions(last.before)), n \in Range(arg) :
          /\ QText(e) = QText(n)
          /\ e # n
          /\ e \in Range(files[TheFile].qs)
          /\ n \notin Range(files[TheFile].qs)
    /\ Len(files[TheFile].qs) = 2

\* C3, as stated: whatever the pipelines saved, a persisted question list
\* never holds two elements with the same question text.
C3_AlwaysUnique ==
    \A f \in OutFiles : files[f].kind = "json" => ~RepeatsText(files[f].qs)

\* C3, amended: after a call of the merging save whose write completed, the
\* file holds no two elements with the same question text, whatever it held
\* before and whatever list was handed in.
C3_UniqueAfterMerge ==
    (last.op = "merge" /\ last.res = "ok")
    => /\ files[last.file].kind = "json"
       /\ ~RepeatsText(files[last.file].qs)

\* a merging save was handed a list that repeats a text and wrote the file
C3_Witness ==
    /\ last.op = "merge"
    /\ last.res = "ok"
    /\ last.repeats
    /\ last.hadOther
    /\ Len(files[last.file].qs) = 2

\* C6, as stated, for the calls whose write completes: a question text in a
\* file is still in it after every later save.
C6_NeverLost ==
    [][\A f \in OutFiles :
          last'.res = "ok" => TextsOf(files[f]) \subseteq TextsOf(files'[f])]_vars

\* C6, amended: a question text in a file is still in it after every later
\* call of the merging save on that file, unless that call's write fails in
\* the middle (json.dump raising after the file was truncated).
C6_KeptByMerge ==
    [][\A f \in OutFiles :
          (last'.op = "merge" /\ last'.res # "dump_failed")
          => TextsOf(files[f]) \subseteq TextsOf(files'[f])]_vars

\* a merging save handed a list without one of the file's texts has written
\* the file, and the file holds both texts
C6_Witness ==
    /\ last.op = "merge"
    /\ last.res = "ok"
    /\ last.hadOther
    /\ ~last.repeats
    /\ TextsOf(files[last.file]) = {"X", "Y"}

(***************************************************************************)
(* LocalMDXReader.parse_frontmatter (the two readers hold the same code).  *)
(* A text is a sequence of characters.                                     *)
(***************************************************************************)
Chars == {"-", ":", "\n", " ", "a"}

Whitespace == {" ", "\n"}

Delimiter == <<"-", "-", "-">>

\* content.startswith(prefix)
StartsWith(content, prefix) ==
    /\ Len(content) >= Len(prefix)
    /\ SubSeq(content, 1, Len(prefix)) = prefix

\* whether sep occurs in s at index i
OccursAt(s, sep, i) ==
    /\ i >= 1
    /\ i + Len(sep) - 1 <= Len(s)
    /\ SubSeq(s, i, i + Len(sep) - 1) = sep

\* s.find(sep): the lowest index where sep occurs, 0 if it does not
Find(s, sep) ==
    LET hits == {i \in 1..Len(s) : OccursAt(s, sep, i)} IN
    IF hits = {} THEN 0 ELSE CHOOSE i \in hits : \A j \in hits : i <= j

\* s.split(sep, maxsplit): cut at the leftmost occurrences, at most maxsplit times
RECURSIVE Split(_, _, _)
Split(s, sep, maxsplit) ==
    LET i == Find(s, sep) IN
    IF maxsplit = 0 \/ i = 0 THEN <<s>>
    ELSE <<SubSeq(s, 1, i - 1)>>
         \o Split(SubSeq(s, i + Len(sep), Len(s)), sep, maxsplit - 1)

\* s.split(sep): no limit on the cuts
SplitAll(s, sep) == Split(s, sep, Len(s))

\* s.strip()
RECURSIVE LStrip(_)
LStrip(s) == IF s # <<>> /\ Head(s) \in Whitespace THEN LStrip(Tail(s)) ELSE s

RECURSIVE RStrip(_)
RStrip(s) ==
    IF s # <<>> /\ s[Len(s)] \in Whitespace THEN RStrip(SubSeq(s, 1, Len(s) - 1)) ELSE s

Strip(s) == RStrip(LStrip(s))

\* metadata[key] = value
SetItem(metadata, key, value) ==
    [k \in DOMAIN metadata \cup {key} |-> IF k = key THEN value ELSE metadata[k]]

\* the loop over the lines of the front matter
RECURSIVE MetadataLoop(_, _, _)
MetadataLoop(lines, n, metadata) ==
    IF n > Len(lines) THEN metadata
    ELSE IF ":" \in Range(lines[n])
         THEN LET kv == Split(lines[n], <<":">>, 1) IN
              MetadataLoop(lines, n + 1, SetItem(metadata, Strip(kv[1]), Strip(kv[2])))
         ELSE MetadataLoop(lines, n + 1, metadata)

\* a plausible slip: the malformed header's text is trimmed like a body
parse_frontmatter_trimmed(content) ==
    IF ~StartsWith(content, Delimiter)
    THEN [metadata |-> <<>>, content |-> content]
    ELSE LET parts == Split(content, Delimiter, 2) IN
         IF Len(parts) < 3
         THEN [metadata |-> <<>>, content |-> Strip(content)]
         ELSE [metadata |-> MetadataLoop(SplitAll(Strip(parts[2]), <<"\n">>), 1, <<>>),
               content |-> Strip(parts[3])]

parse_frontmatter(content) ==
    IF ~StartsWith(content, Delimiter)
    THEN [metadata |-> <<>>, content |-> content]
    ELSE LET parts == Split(content, Delimiter, 2) IN
         IF Len(parts) < 3
         THEN [metadata |-> <<>>, content |-> content]
         ELSE [metadata |-> MetadataLoop(SplitAll(Strip(parts[2]), <<"\n">>), 1, <<>>),
               content |-> Strip(parts[3])]

(***************************************************************************)
(* FMSpec: parse_frontmatter applied to every text up to MaxStr characters.*)
(***************************************************************************)
FMInit ==
    /\ raw \in SeqsUpTo(Chars, MaxStr)
    /\ fm = NotParsed
    /\ IdleStore /\ IdleMerge /\ IdlePD /\ IdleSync /\ IdleSched /\ IdleBatch

ParseFrontmatter ==
    /\ ~fm.done
    /\ LET r == parse_frontmatter(raw) IN
       fm' = [done |-> TRUE, metadata |-> r.metadata, content |-> r.content]
    /\ UNCHANGED <<raw, storeVars, mergeVars, pdVars, syncVars, loopVars>>

FMNext == ParseFrontmatter

FMSpec == FMInit /\ [][FMNext]_vars

\* the text holds the delimiter twice without overlap, which is what makes
\* split('---', 2) return 3 parts
TwoDelimiters(s) ==
    \E i, j \in 1..Len(s) :
        /\ OccursAt(s, Delimiter, i)
        /\ OccursAt(s, Delimiter, j)
        /\ j >= i + Len(Delimiter)

\* C10: for a text that does not start with '---', and for a text that
\* starts with it but does not hold it a second time (fewer than 3 parts),
\* parse_frontmatter returns the empty mapping and the text itself,
\* character for character.
C10_AbsentOrMalformed ==
    (fm.done /\ (~StartsWith(raw, Delimiter) \/ ~TwoDelimiters(raw)))
    => (fm.metadata = <<>> /\ fm.content = raw)

\* a malformed header with a colon and a trailing blank came back untouched
C10_Witness ==
    /\ fm.done
    /\ StartsWith(raw, Delimiter)
    /\ ~TwoDelimiters(raw)
    /\ ":" \in Range(raw)
    /\ raw[Len(raw)] = " "
    /\ fm.content = raw
    /\ fm.metadata = <<>>

(***************************************************************************)
(* process_data of mongo_db_connect.py.  A question of a flat file is a    *)
(* dict; nothing stops it from carrying a question_id or a source_file     *)
(* already.                                                                *)
(***************************************************************************)
HasKey(d, k) == k \in DOMAIN d

\* question.get("question_id", i)
GetQuestionId(question, i) ==
    IF HasKey(question, "question_id") THEN question["question_id"] ELSE i

\* a plausible slip: enumerate(data) without the start value 1
process_data_zero_based(filename, data) ==
    [n \in DOMAIN data |->
        SetItem(SetItem(data[n], "question_id", GetQuestionId(data[n], n - 1)),
                "source_file", filename)]

\* for i, question in enumerate(data, 1): the two assignments, then append
process_data(filename, data) ==
    [n \in DOMAIN data |->
        SetItem(SetItem(data[n], "question_id", GetQuestionId(data[n], n)),
                "source_file", filename)]

(***************************************************************************)
(* PDSpec: process_data applied to every list up to MaxLen questions.      *)
(***************************************************************************)
FileQuestions ==
    { [question |-> "X"],
      [question |-> "Y"],
      [question |-> "X", question_id |-> 1],
      [question |-> "X", question_id |-> 7],
      [question |-> "Y", question_id |-> 1, source_file |-> "old"] }

PDInit ==
    /\ pdin \in [filename : {"a", "b"}, data : SeqsUpTo(FileQuestions, MaxLen)]
    /\ pdout = NotProcessed
    /\ IdleStore /\ IdleMerge /\ IdleFM /\ IdleSync /\ IdleSched /\ IdleBatch

ProcessData ==
    /\ ~pdout.done
    /\ pdout' = [done |-> TRUE, data |-> process_data(pdin.filename, pdin.data)]
    /\ UNCHANGED <<pdin, storeVars, mergeVars, fmVars, syncVars, loopVars>>

PDNext == ProcessData

PDSpec == PDInit /\ [][PDNext]_vars

\* C8, as stated: the element at 1-based position i gets question_id i,
\* whatever question_id it carried, and source_file equal to the key.
C8_IdIsPosition ==
    pdout.done =>
        \A i \in DOMAIN pdout.data :
            /\ pdout.data[i]["question_id"] = i
            /\ pdout.data[i]["source_file"] = pdin.filename

\* C8, amended: the element at 1-based position i gets question_id i when it
\* carries none and keeps the question_id it carries otherwise; every element
\* gets source_file equal to the key; nothing else of it changes.
C8_IdIfNotPresent ==
    pdout.done =>
        /\ Len(pdout.data) = Len(pdin.data)
        /\ \A i \in DOMAIN pdout.data :
            LET old == pdin.data[i]
                new == pdout.data[i]
            IN /\ DOMAIN new = DOMAIN old \cup {"question_id", "source_file"}
               /\ new["question_id"] =
                     IF "question_id" \in DOMAIN old THEN old["question_id"] ELSE i
               /\ new["source_file"] = pdin.filename
               /\ \A k \in DOMAIN old \ {"question_id", "source_file"} : new[k] = old[k]

\* a list whose first element carried a question_id of its own and whose
\* second carried none: the first kept it, the second got its position
C8_Witness ==
    /\ pdout.done
    /\ Len(pdin.data) = 2
    /\ HasKey(pdin.data[1], "question_id")
    /\ pdout.data[1]["question_id"] = 7
    /\ ~HasKey(pdin.data[2], "question_id")
    /\ pdout.data[2]["question_id"] = 2
    /\ pdout.data[2]["source_file"] = pdin.filename

(***************************************************************************)
(* The remote sync, mongo_db_connect.py.                                   *)
(* A file name is the sequence of its dot-separated pieces, so that        *)
(* a.json is <<"a", ".json">> and a.json.json is <<"a", ".json", ".json">>.*)
(***************************************************************************)
FileAJson     == <<"a", ".json">>
FileAJsonJson == <<"a", ".json", ".json">>
FileBJson     == <<"b", ".json">>

\* the listing order of the folder (the same on every pass)
FolderNames == <<FileAJson, FileAJsonJson, FileBJson>>

\* os.path.basename(json_file).replace('.json', ''): every '.json' goes
KeyOf(name) == SelectSeq(name, LAMBDA piece : piece # ".json")

\* what the files of the folder hold in this model
SampleLists ==
    { <<>>,
      <<[question |-> "X"]>>,
      <<[question |-> "X"], [question |-> "Y", question_id |-> 7]>> }

FolderContents == {Absent, Corrupt} \cup {Json(qs) : qs \in SampleLists}

\* get_json_files: the names of the folder that exist, in listing order
get_json_files(dir) == SelectSeq(FolderNames, LAMBDA name : dir[name].kind # "absent")

\* load_json_data: the parsed list, or None when open or json.load raises
load_json_data(c) == IF c.kind = "json" THEN c.qs ELSE None

\* `if json_data:` is false for None and for the empty list
Truthy(json_data) == json_data # None /\ json_data # <<>>

\* a plausible slip: the filter names a field the documents do not have
find_one_wrong_field(coll, filename) == 0

\* collection.find_one({"key": filename}): the index of the first document
\* with that key, 0 for None
find_one(coll, filename) ==
    LET hits == {i \in DOMAIN coll : coll[i].key = filename} IN
    IF hits = {} THEN 0 ELSE CHOOSE i \in hits : \A j \in hits : i <= j

\* collection.insert_one(data[0]); the driver adds a fresh _id
insert_one(coll, doc) ==
    Append(coll, [_id |-> Len(coll) + 1, key |-> doc.key, questions |-> doc.questions])

\* a plausible slip: the whole document is replaced, its other fields lost
update_one_replace(coll, filename, new_questions) ==
    LET i == find_one(coll, filename) IN
    [coll EXCEPT ![i] = [_id |-> 0, key |-> filename, questions |-> new_questions]]

\* collection.update_one({"key": filename}, {"$set": {"questions": ...}})
update_one(coll, filename, new_questions) ==
    LET i == find_one(coll, filename) IN
    [coll EXCEPT ![i].questions = new_questions]

\* the branches of push_to_mongodb once find_one has returned
Decision(coll, filename, new_questions) ==
    LET i == find_one(coll, filename) IN
    IF i # 0
    THEN IF coll[i].questions # new_questions THEN "update" ELSE "none"
    ELSE "insert"

\* a plausible slip: the except clause is missing, the exception ends main()
AfterFileUncaught(s, raised) ==
    IF raised THEN [pc |-> "crashed", idx |-> s.idx]
    ELSE IF s.idx = Len(s.json_files)
         THEN [pc |-> "idle", idx |-> 0]
         ELSE [pc |-> "running", idx |-> s.idx + 1]

\* where main() goes after one file: on to the next file, or past the loop
\* to client.close(); an exception of push_to_mongodb was caught inside it
AfterFile(s, raised) ==
    IF s.idx = Len(s.json_files)
    THEN [pc |-> "idle", idx |-> 0]
    ELSE [pc |-> "running", idx |-> s.idx + 1]

NoStep == [key |-> <<>>, lookup |-> "none", write |-> "none", raised |-> FALSE]

\* a plausible slip: the ping is left out; MongoClient() connects lazily and
\* returns a client although the server cannot be reached
connect_to_mongodb_no_ping(ping) == "client"

\* connect_to_mongodb: the client, or None when MongoClient() or the ping raises
connect_to_mongodb(ping) == IF ping THEN "client" ELSE None

SyncInit ==
    /\ folder = [name \in Range(FolderNames) |-> Absent]
    /\ store = <<>>
    /\ sync = [pc |-> "idle", json_files |-> <<>>, idx |-> 0,
               changed |-> FALSE, prev |-> "none", rerun |-> FALSE, ping |-> "none",
               wrote |-> FALSE, errKeys |-> {}, step |-> NoStep]
    /\ IdleStore /\ IdleMerge /\ IdleFM /\ IdlePD /\ IdleSched /\ IdleBatch

\* a flat file is written (by a generation pipeline or by hand) while no
\* sync runs
EditFolder ==
    \E name \in Range(FolderNames), c \in FolderContents :
        /\ sync.pc # "running"
        /\ c # folder[name]
        /\ folder' = [folder EXCEPT ![name] = c]
        /\ sync' = [sync EXCEPT !.changed = TRUE]
        /\ UNCHANGED <<store, storeVars, mergeVars, fmVars, pdVars, loopVars>>

\* main() up to the loop: connect_to_mongodb, then get_json_files
StartSync ==
    \E ping \in BOOLEAN :
        /\ sync.pc # "running"
        /\ LET json_files == get_json_files(folder)
               client == connect_to_mongodb(ping)
               begun == [sync EXCEPT !.json_files = json_files,
                                     !.ping = IF ping THEN "ok" ELSE "failed",
                                     !.rerun = (sync.prev = "clean" /\ ~sync.changed),
                                     !.changed = FALSE,
                                     !.wrote = FALSE,
                                     !.errKeys = {},
                                     !.step = NoStep]
           IN sync' =
                IF client = None
                THEN \* client["interview_helper_db"] raises TypeError
                     [sync EXCEPT !.pc = "crashed", !.idx = 0, !.step = NoStep,
                                  !.ping = "failed"]
                ELSE IF json_files = <<>>
                THEN \* "No JSON files found in the folder."
                     [begun EXCEPT !.pc = "idle", !.idx = 0, !.prev = "clean"]
                ELSE [begun EXCEPT !.pc = "running", !.idx = 1]
        /\ UNCHANGED <<folder, store, storeVars, mergeVars, fmVars, pdVars, loopVars>>

\* one turn of the loop of main(): load, process_data, push_to_mongodb
ProcessFile ==
    \E lookupOk \in BOOLEAN, writeOk \in BOOLEAN :
        /\ sync.pc = "running"
        /\ LET json_file == sync.json_files[sync.idx]
               filename == KeyOf(json_file)
               json_data == load_json_data(folder[json_file])
               new_questions == process_data(filename, json_data)
               decision == Decision(store, filename, new_questions)
               pushed == Truthy(json_data)
               raised == pushed /\ (~lookupOk \/ (decision # "none" /\ ~writeOk))
               issued == IF pushed /\ lookupOk THEN decision ELSE "none"
               after == AfterFile(sync, raised)
               errKeys == IF raised THEN sync.errKeys \cup {filename} ELSE sync.errKeys
           IN /\ store' =
                    IF ~pushed \/ raised THEN store
                    ELSE CASE decision = "insert" ->
                                insert_one(store, [key |-> filename, questions |-> new_questions])
                           [] decision = "update" ->
                                update_one(store, filename, new_questions)
                           [] decision = "none" -> store
              /\ sync' = [sync EXCEPT
                    !.pc = after.pc,
                    !.idx = after.idx,
                    !.wrote = sync.wrote \/ issued # "none",
                    !.errKeys = errKeys,
                    !.prev = IF after.pc = "running" THEN sync.prev
                             ELSE IF after.pc = "crashed" THEN "errors"
                             ELSE IF errKeys = {} THEN "clean" ELSE "errors",
                    !.step = [key |-> filename,
                              lookup |-> IF ~pushed THEN "skipped"
                                         ELSE IF ~lookupOk THEN "error"
                                         ELSE IF find_one(store, filename) = 0 THEN "missing"
                                         ELSE "found",
                              write |-> issued,
                              raised |-> raised]]
        /\ UNCHANGED <<folder, storeVars, mergeVars, fmVars, pdVars, loopVars>>

SyncNext == EditFolder \/ StartSync \/ ProcessFile

SyncSpec == SyncInit /\ [][SyncNext]_vars

(***************************************************************************)
(* Claims about the remote sync.                                           *)
(***************************************************************************)
\* the file the pass is at, its key and the record main() builds for it
CurrentFile == sync.json_files[sync.idx]
CurrentKey  == KeyOf(CurrentFile)
CurrentData == load_json_data(folder[CurrentFile])
CurrentQuestions == process_data(CurrentKey, CurrentData)

\* the documents of the collection with the given key, by index
DocsOf(coll, key) == {i \in DOMAIN coll : coll[i].key = key}

\* C4, as stated, for a first pass that met no store error: a pass that
\* follows a completed pass with no flat file changed in between issues no
\* insert_one and no update_one.
C4_SecondPassWritesNothing == sync.rerun => ~sync.wrote

\* C4 without the key collision: when no two files of the pass have the same
\* key, the pass that re-runs a clean pass issues no write.
C4_NoCollisionNoWrite ==
    (/\ sync.rerun
     /\ \A i, j \in DOMAIN sync.json_files :
           KeyOf(sync.json_files[i]) = KeyOf(sync.json_files[j]) => i = j)
    => ~sync.wrote

\* C5: for each file pushed, once the lookup has returned, exactly one of
\* three things happens.  No document with the key: insert_one of the built
\* record (the key and the built questions).  A document whose questions
\* differ from the built ones: one update_one, after which that document has
\* the built questions and its key and other fields as before, and no other
\* document has changed.  A document with the same questions: no write.
C5_DecisionTable ==
    [][(/\ sync.pc = "running"
        /\ sync'.step.lookup \in {"missing", "found"})
       => LET docs == DocsOf(store, CurrentKey)
              raised == sync'.step.raised
          IN
          IF docs = {}
          THEN /\ sync'.step.lookup = "missing"
               /\ sync'.step.write = "insert"
               /\ raised => store' = store
               /\ ~raised =>
                    /\ Len(store') = Len(store) + 1
                    /\ SubSeq(store', 1, Len(store)) = store
                    /\ store'[Len(store')].key = CurrentKey
                    /\ store'[Len(store')].questions = CurrentQuestions
          ELSE LET i == CHOOSE d \in docs : \A e \in docs : d <= e IN
               IF store[i].questions # CurrentQuestions
               THEN /\ sync'.step.lookup = "found"
                    /\ sync'.step.write = "update"
                    /\ raised => store' = store
                    /\ ~raised =>
                         /\ Len(store') = Len(store)
                         /\ \A j \in DOMAIN store : j # i => store'[j] = store[j]
                         /\ store'[i].questions = CurrentQuestions
                         /\ store'[i].key = store[i].key
                         /\ store'[i]._id = store[i]._id
               ELSE /\ sync'.step.lookup = "found"
                    /\ sync'.step.write = "none"
                    /\ ~raised
                    /\ store' = store]_vars

\* all three outcomes have happened to one key: the last step updated a
\* document that an earlier pass inserted
C5_Witness ==
    /\ sync.step.lookup = "found"
    /\ sync.step.write = "update"
    /\ ~sync.step.raised
    /\ sync.prev # "none"
    /\ Len(store) = 2
    /\ \E i \in DOMAIN store :
          /\ store[i].key = sync.step.key
          /\ Len(store[i].questions) = 2

\* C7: a store error raised for one file is caught: the step leaves the
\* collection as it was and the pass goes on to the next file (it ends only
\* after the last one); and a step, failed or not, touches no document of
\* another key, so the files that remain find the collection they would have
\* found without the error.
C7_ErrorIsolated ==
    [][sync.pc = "running"
       => /\ IF sync.idx < Len(sync.json_files)
             THEN sync'.pc = "running" /\ sync'.idx = sync.idx + 1
             ELSE sync'.pc = "idle"
          /\ sync'.step.raised => store' = store
          /\ \A i \in DOMAIN store : store[i].key # CurrentKey => store'[i] = store[i]
          /\ \A i \in DOMAIN store' \ DOMAIN store : store'[i].key = CurrentKey]_vars

\* a lookup or write for one key raised earlier in this pass, and the pass
\* has since inserted the record of another key
C7_Witness ==
    /\ sync.errKeys # {}
    /\ sync.step.key \notin sync.errKeys
    /\ sync.step.write = "insert"
    /\ ~sync.step.raised
    /\ \E i \in DOMAIN store : store[i].key = sync.step.key

\* C9: the collection, empty at the start, never holds two documents with
\* the same key, whatever lookups and writes failed.
C9_KeyUnique ==
    \A i, j \in DOMAIN store : store[i].key = store[j].key => i = j

\* two keys are in the collection, one of them written on a pass that
\* re-ran after a pass with store errors
C9_Witness ==
    /\ Len(store) = 2
    /\ store[1].key # store[2].key
    /\ sync.prev = "errors"
    /\ sync.pc = "running"
    /\ sync.step.write = "insert"
    /\ ~sync.step.raised

\* C11: when the ping at startup fails, the run ends there: main() is past
\* its loop without having entered it, no file of the folder has been
\* loaded, no find_one, insert_one or update_one has been issued, and the
\* collection is what it was before the run.
C11_PingFailureIsFatal ==
    [][sync'.ping = "failed"
       => /\ sync'.pc = "crashed"
          /\ sync'.idx = 0
          /\ sync'.step = NoStep
          /\ store' = store]_vars

\* the ping failed on a run whose folder holds a file that a pass would
\* have inserted, and a file whose document a pass would have updated
C11_Witness ==
    /\ sync.ping = "failed"
    /\ sync.pc = "crashed"
    /\ \E name \in Range(get_json_files(folder)) :
          /\ Truthy(load_json_data(folder[name]))
          /\ find_one(store, KeyOf(name)) = 0
    /\ \E name \in Range(get_json_files(folder)) :
          /\ Truthy(load_json_data(folder[name]))
          /\ Decision(store, KeyOf(name),
                      process_data(KeyOf(name), load_json_data(folder[name]))) = "update"

(***************************************************************************)
(* The loop of mdx_reader.main over the documents read from the directory: *)
(* the pause, generate_mcqs, and the mirrored save of what it returned.    *)
(***************************************************************************)
SleepEvery == 20     \* the 20 of `index%20==0`
MaxDocs == 41        \* longest document list of the model

\* file_data['content']: None after a read failure, or the text of the body
DocContents == {None, "", "text"}

\* `if file_data['content']:` is false for None and for the empty text
TruthyContent(content) == content # None /\ content # ""

\* a plausible slip: the modulus of the sibling loop, which is never 20
ShouldSleepModOne(index) == index % 1 = SleepEvery /\ index # 0

\* index%20==0 and index != 0
ShouldSleep(index) == index % SleepEvery = 0 /\ index # 0

\* what the generation service's response parses to in this model
SampleResponses == {<<>>, <<[question |-> "X", correct_answer |-> "A"]>>}

\* how a call of generate_mcqs goes: the response parses, or an exception
\* (network error, response that is not JSON) is raised inside it
GenOutcomes ==
    [ok : {TRUE}, parsed : SampleResponses] \cup {[ok |-> FALSE, parsed |-> <<>>]}

\* generate_mcqs: the parsed response, [] from the except clause
generate_mcqs(g) == IF g.ok THEN g.parsed ELSE <<>>

NoItem == [index |-> -1, slept |-> FALSE, content |-> None, gen |-> "none",
           saved |-> FALSE]

SchedInit ==
    /\ files = [f \in OutFiles |-> Absent]
    /\ pub = [f \in OutFiles |-> Absent]
    /\ last = NoCall
    /\ sched = [pc |-> "running", index |-> 0, sleeps |-> 0, items |-> 0,
                calls |-> 0, step |-> NoItem]
    /\ IdleMerge /\ IdleFM /\ IdlePD /\ IdleSync /\ IdleBatch

\* one turn of the loop: the pause when it is due, then the document.  The
\* output file is the stem of the document's path; sched.items and
\* sched.calls count the documents handled and the calls of generate_mcqs
\* since the start of the run or the last pause.
HandleItem ==
    \E content \in DocContents, g \in GenOutcomes, r \in MirrorOutcomes, f \in OutFiles :
        /\ sched.pc = "running"
        /\ sched.index < MaxDocs
        /\ LET index == sched.index
               slept == ShouldSleep(index)
               called == TruthyContent(content)
               questions == generate_mcqs(g)
           IN /\ IF called
                 THEN /\ MirroredSave(questions, f, r)
                      /\ last' = Call("mirror", f, r.src, r.public, questions, files[f])
                 ELSE UNCHANGED storeVars
              /\ sched' = [pc |-> "running",
                           index |-> index + 1,
                           sleeps |-> sched.sleeps + (IF slept THEN 1 ELSE 0),
                           items |-> (IF slept THEN 0 ELSE sched.items) + 1,
                           calls |-> (IF slept THEN 0 ELSE sched.calls)
                                     + (IF called THEN 1 ELSE 0),
                           step |-> [index |-> index,
                                     slept |-> slept,
                                     content |-> content,
                                     gen |-> IF ~called THEN "none"
                                             ELSE IF g.ok THEN "ok" ELSE "failed",
                                     saved |-> called]]
        /\ UNCHANGED <<mergeVars, fmVars, pdVars, syncVars, batch>>

\* enumerate(mdx_files_data) is exhausted: main() returns
EndOfDocuments ==
    /\ sched.pc = "running"
    /\ sched' = [sched EXCEPT !.pc = "done"]
    /\ UNCHANGED <<storeVars, mergeVars, fmVars, pdVars, syncVars, batch>>

SchedNext == HandleItem \/ EndOfDocuments

SchedSpec == SchedInit /\ [][SchedNext]_vars

(***************************************************************************)
(* Claims about the loop of mdx_reader.main.                               *)
(***************************************************************************)
\* C12, as stated: a document whose generation call failed is skipped: all
\* that the turn of the loop leaves behind is the failed call, the output
\* file and its mirror are not written.
C12_FailedGenerationSkipsItem ==
    [][(sched.pc = "running" /\ sched'.step.gen = "failed" /\ sched'.index # sched.index)
       => (files' = files /\ pub' = pub)]_vars

\* C13: the documents are handled at positions 0, 1, 2, ... of the list, one
\* after the other; never more than 20 documents are handled, and so never
\* more than 20 calls of generate_mcqs are made, between the start of the run
\* and the first pause or between two pauses; and the document that comes
\* after 20 handled ones is handled only after a pause.
C13_Pacing ==
    [][(sched.pc = "running" /\ sched'.index # sched.index)
       => /\ sched'.step.index = sched.step.index + 1
          /\ sched.items = SleepEvery => sched'.step.slept
          /\ sched'.items <= SleepEvery
          /\ sched'.calls <= sched'.items]_vars

\* the second pause has just been taken, after 20 documents that each had a
\* generation call, and the 41st document has been handled
C13_Witness ==
    /\ sched.sleeps = 2
    /\ sched.step.slept
    /\ sched.step.index = 2 * SleepEvery
    /\ sched.step.gen = "ok"
    /\ sched.calls = 1

(***************************************************************************)
(* The loop of mdx_reader_full_length.main: the documents whose output     *)
(* name holds "react" are gathered in output_string.  An output name is    *)
(* the sequence of its pieces; output_string is the sequence of the        *)
(* documents added to it, each standing for                                *)
(* "\n\n" + output_filename + "\n\n" + content.                            *)
(***************************************************************************)
FlushAt == 10        \* the 10 of `counter%1==10`
MaxBatchDocs == 12   \* longest document list of the model

ReactHooks == <<"react", "_", "hooks", ".json">>
VueIntro   == <<"vue", "_", "intro", ".json">>

\* convert_to_json_name(file_data['path']) over the documents of the model
OutputNames == {ReactHooks, VueIntro}

\* "react" in output_filename
HasReact(output_filename) == "react" \in Range(output_filename)

\* counter !=0 and counter%1==10
ShouldFlush(counter) == counter # 0 /\ counter % 1 = FlushAt

NoDocument == [index |-> -1, output_filename |-> <<>>, content |-> None,
               added |-> FALSE, flushed |-> FALSE, raised |-> FALSE]

BatchInit ==
    /\ batch = [pc |-> "running", index |-> 0, counter |-> 0, output_string |-> <<>>,
                step |-> NoDocument]
    /\ IdleStore /\ IdleMerge /\ IdleFM /\ IdlePD /\ IdleSync /\ IdleSched

\* one turn of the loop.  str + None raises TypeError before output_string
\* is assigned; nothing catches it, and main() ends there.
HandleDocument ==
    \E output_filename \in OutputNames, content \in DocContents :
        /\ batch.pc = "running"
        /\ batch.index < MaxBatchDocs
        /\ LET matches == HasReact(output_filename)
               raised == matches /\ content = None
               added == matches /\ ~raised
               counter == IF added THEN batch.counter + 1 ELSE batch.counter
               flushed == added /\ ShouldFlush(counter)
               appended == Append(batch.output_string,
                                  [output_filename |-> output_filename, content |-> content])
           IN batch' = [pc |-> IF raised THEN "crashed" ELSE "running",
                        index |-> IF raised THEN batch.index ELSE batch.index + 1,
                        counter |-> counter,
                        output_string |-> IF flushed THEN <<>>
                                          ELSE IF added THEN appended
                                          ELSE batch.output_string,
                        step |-> [index |-> batch.index,
                                  output_filename |-> output_filename,
                                  content |-> content,
                                  added |-> added,
                                  flushed |-> flushed,
                                  raised |-> raised]]
        /\ UNCHANGED <<storeVars, mergeVars, fmVars, pdVars, syncVars, sched>>

\* enumerate(mdx_files_data) is exhausted: main() returns
EndOfBatchDocuments ==
    /\ batch.pc = "running"
    /\ batch' = [batch EXCEPT !.pc = "done"]
    /\ UNCHANGED <<storeVars, mergeVars, fmVars, pdVars, syncVars, sched>>

BatchNext == HandleDocument \/ EndOfBatchDocuments

BatchSpec == BatchInit /\ [][BatchNext]_vars

(***************************************************************************)
(* Claims about the loop of mdx_reader_full_length.main.                   *)
(***************************************************************************)
\* C14, as stated: when the document added to the batch is its 10th, the
\* batch is flushed and output_string is empty again; output_string never
\* holds more than 10 documents.
C14_FlushAtThreshold ==
    [][(batch.pc = "running" /\ batch'.step.added /\ batch'.step.index = batch.index)
       => /\ Len(batch.output_string) + 1 = FlushAt
                => (batch'.step.flushed /\ batch'.output_string = <<>>)
          /\ Len(batch'.output_string) <= FlushAt]_vars

\* C15, as stated: a document with content None whose output name holds
\* "react" leaves output_string and the counter as they were, and the loop
\* goes on to the next document.
C15_NullContentSkipped ==
    [][(/\ batch.pc = "running"
        /\ batch'.step.index = batch.index
        /\ HasReact(batch'.step.output_filename)
        /\ batch'.step.content = None)
       => /\ batch'.output_string = batch.output_string
          /\ batch'.counter = batch.counter
          /\ batch'.pc = "running"
          /\ batch'.index = batch.index + 1]_vars

(***************************************************************************)
(* Claims about the mirrored save of mdx_reader.py.                        *)
(***************************************************************************)
\* C16, as stated: each of the two writes of the mirrored save is made
\* whatever became of the other; in particular the write to the public
\* mirror is made on every call, also when the write to the questions
\* directory failed.
C16_IndependentWrites ==
    last.op = "mirror" => last.public \in WriteOutcomes

\* C16, the part that holds: once the first write has completed, a failure
\* of the mirror write leaves the first file as written, and when both
\* writes complete the two files hold the same content.
C16_WhenPrimarySucceeds ==
    (last.op = "mirror" /\ last.res = "ok")
    => /\ files[last.file].kind = "json"
       /\ last.public = "ok" => pub[last.file] = files[last.file]

====
